---- MODULE Spec2Model ----
(***************************************************************************)
(* Model of the voice-driven name cycler.                                  *)
(*                                                                         *)
(*   src/bibb.py   VoiceCycler: a capture callback feeds a bounded queue,  *)
(*                 the dispatch loop starts one thread per snippet, each   *)
(*                 thread transcribes (with retries), checks the trigger   *)
(*                 phrase, takes the next reply, speaks it and logs it.    *)
(*   src/voice.py  the single-threaded variant of the same cycle.          *)
(*                                                                         *)
(* A behaviour is one run of one of the two entry points (prog).           *)
(* Strings are tuples of one-character strings, so that lower() and the    *)
(* `in` substring test are computed character by character.                *)
(***************************************************************************)
EXTENDS Integers, Sequences, FiniteSets, TLC

\* ------------------------------------------------------------------ bounds
\* number of snippets the capture source delivers in one run
MaxSnippets == 4
\* number of _process_audio threads alive at the same time (the source sets
\* no limit; the dispatch loop of the model waits when the limit is reached)
MaxInFlight == 2
\* number of failures the environment injects in one run: recognizer
\* exceptions, refused speech requests, failed appends
MaxFaults == 3
\* number of environment events in one run: snippets delivered plus
\* failures injected
MaxEvents == 4
\* number of iterations of voice.py's loop in one run
MaxTurns == 5
\* snippets captured in the runs that follow the speaking threads
MaxSpeakers == 2

\* ----------------------------------------------------------- configuration
\* Config.PHRASE
PHRASE == <<"w","h","o"," ","i","s"," ","h","e">>

\* Config.REPLIES (voice.py: REPLIES)
REPLIES == <<"Vaibhav", "Manas", "Dev">>

\* Config.MAX_RETRY
MAX_RETRY == 3

\* Config.QUEUE_MAXSIZE (32 in the source; scaled down so that the queue fills)
QUEUE_MAXSIZE == 2

\* ------------------------------------------------------------------ strings
UpperCase == <<"A","B","C","D","E","F","G","H","I","J","K","L","M",
               "N","O","P","Q","R","S","T","U","V","W","X","Y","Z">>

LowerCase == <<"a","b","c","d","e","f","g","h","i","j","k","l","m",
               "n","o","p","q","r","s","t","u","v","w","x","y","z">>

\* the character left as it is
LowerCharKeep(c) == c

\* str.lower() on one character
LowerChar(c) ==
    IF \E i \in 1..26 : UpperCase[i] = c
    THEN LowerCase[CHOOSE i \in 1..26 : UpperCase[i] = c]
    ELSE c

\* str.lower()
Lower(s) == [i \in 1..Len(s) |-> LowerChar(s[i])]

\* Python's `p in s` on strings: p occurs as a contiguous substring of s
Contains(p, s) ==
    \E i \in 0..(Len(s) - Len(p)) : SubSeq(s, i + 1, i + Len(p)) = p

\* the texts the recognizer may return (recognize_google's raw result);
\* nothing in the program constrains their case or their surrounding blanks
RawTexts ==
    { <<"I"," ","W","o","n","d","e","r"," ","W","h","o"," ","I","s"," ","H","e",
        " ","T","o","d","a","y"," ">>,
      <<"w","h","o"," ","i","s"," ","s","h","e">> }

\* the texts voice.py's recognizer may return
VoiceTexts ==
    RawTexts \cup { <<"w","h","o"," ","i","s"," ","h","e">>,
                    <<" ","W","h","o"," ","I","s"," ","H","e"," ">>,
                    <<"h","e"," ","i","s"," ","w","h","o">> }

\* ------------------------------------------------------------------- state
VARIABLES
    prog,         \* which entry point runs: "bibb" or "voice"
    mainpc,       \* position of the main thread of bibb.py
    running,      \* VoiceCycler.running
    listening,    \* background listener started and not yet stopped
    count,        \* VoiceCycler.count
    audio_queue,  \* VoiceCycler.audio_queue: snippet ids, oldest first
    captured,     \* number of snippets the capture callback has been given
    workers,      \* one _process_audio thread per snippet id
    csv,          \* rows appended to interactions.csv
    speech,       \* replies handed to TTSEngine.speak
    overlapped,   \* history: two _get_next_reply calls have overlapped
    assigned,     \* history: what each _get_next_reply call read and returned
    faults,       \* history: failures injected so far
    calibrated,   \* adjust_for_ambient_noise has returned
    tts,          \* the _speak_task thread of each speech request
    vcount,       \* voice.py: count
    vtexts,       \* voice.py: the texts of the iterations so far, in order
    vnames        \* voice.py: names printed, in order

vars == <<prog, mainpc, running, listening, count, audio_queue, captured,
          workers, csv, speech, overlapped, assigned, faults, calibrated,
          tts, vcount, vtexts, vnames>>

bibbVars == <<mainpc, running, listening, count, audio_queue, captured,
              workers, csv, speech, overlapped, assigned, faults,
              calibrated, tts>>

voiceVars == <<vcount, vtexts, vnames>>

Snippets == 1..MaxSnippets

\* a thread that has not been started
NoWorker ==
    [pc |-> "none", attempt |-> 0, result |-> "none", text |-> <<>>,
     cnt |-> 0, tmp |-> 0, reply |-> "", spoke |-> "none", logged |-> "none"]

\* positions of a live _process_audio thread
LivePcs == {"recognize", "sleep", "next_reply", "increment", "store",
            "speak", "log"}

InFlight == {w \in Snippets : workers[w].pc \in LivePcs}

\* threads between the read of count (line 295) and its update (line 298)
InNextReply == {w \in Snippets : workers[w].pc \in {"increment", "store"}}

Init ==
    /\ prog \in {"bibb", "voice"}
    /\ mainpc = "main"
    /\ running = FALSE
    /\ listening = FALSE
    /\ count = 0
    /\ audio_queue = <<>>
    /\ captured = 0
    /\ workers = [w \in Snippets |-> NoWorker]
    /\ csv = <<>>
    /\ speech = <<>>
    /\ overlapped = FALSE
    /\ assigned = <<>>
    /\ faults = 0
    /\ calibrated = FALSE
    /\ tts = [w \in Snippets |-> "none"]
    /\ vcount = 0
    /\ vtexts = <<>>
    /\ vnames = <<>>

\* ------------------------------------------------------- bibb.py: startup
\* main(): the probe pyttsx3.init(); a failure exits with status 1
MainProbe ==
    /\ prog = "bibb" /\ mainpc = "main"
    /\ \E ok \in BOOLEAN : mainpc' = IF ok THEN "construct" ELSE "exit1"
    /\ UNCHANGED <<prog, calibrated, tts, running, listening, count,
                   audio_queue, captured, workers, csv, speech, overlapped,
                   assigned, faults>>
    /\ UNCHANGED voiceVars

\* VoiceCycler.__init__ up to _install_signal_handlers: Recognizer, Microphone,
\* TTSEngine (re-raises), CSVLogger, count = 0, running = False, the queue
Construct ==
    /\ prog = "bibb" /\ mainpc = "construct"
    /\ \E ok \in BOOLEAN :
        IF ok
        THEN /\ mainpc' = "calibrate"
             /\ count' = 0
             /\ running' = FALSE
             /\ audio_queue' = <<>>
        ELSE /\ mainpc' = "crashed"
             /\ UNCHANGED <<count, running, audio_queue>>
    /\ UNCHANGED <<prog, calibrated, tts, listening, captured, workers, csv,
                   speech, overlapped, assigned, faults>>
    /\ UNCHANGED voiceVars

\* a failed calibration logged and passed over
CalibrateAmbientSwallowed ==
    /\ prog = "bibb" /\ mainpc = "calibrate"
    /\ \E ok \in BOOLEAN :
        /\ calibrated' = ok
        /\ mainpc' = "run"
    /\ UNCHANGED <<prog, tts, running, listening, count, audio_queue,
                   captured, workers, csv, speech, overlapped, assigned,
                   faults>>
    /\ UNCHANGED voiceVars

\* VoiceCycler._calibrate_ambient, the last step of __init__; an exception of
\* the microphone or of adjust_for_ambient_noise leaves __init__ and main()
CalibrateAmbient ==
    /\ prog = "bibb" /\ mainpc = "calibrate"
    /\ \E ok \in BOOLEAN :
        /\ calibrated' = ok
        /\ mainpc' = IF ok THEN "run" ELSE "crashed"
    /\ UNCHANGED <<prog, tts, running, listening, count, audio_queue,
                   captured, workers, csv, speech, overlapped, assigned,
                   faults>>
    /\ UNCHANGED voiceVars

\* run(): self.running = True
RunStart ==
    /\ prog = "bibb" /\ mainpc = "run"
    /\ running' = TRUE
    /\ mainpc' = "listen"
    /\ UNCHANGED <<prog, calibrated, tts, listening, count, audio_queue,
                   captured, workers, csv, speech, overlapped, assigned,
                   faults>>
    /\ UNCHANGED voiceVars

\* run(): self.listen_in_background()
ListenInBackground ==
    /\ prog = "bibb" /\ mainpc = "listen"
    /\ listening' = TRUE
    /\ mainpc' = "loop"
    /\ UNCHANGED <<prog, calibrated, tts, running, count, audio_queue,
                   captured, workers, csv, speech, overlapped, assigned,
                   faults>>
    /\ UNCHANGED voiceVars

\* the SIGINT/SIGTERM handler, installed by __init__ before calibration
SignalHandler ==
    /\ prog = "bibb"
    /\ mainpc \in {"calibrate", "run", "listen", "loop", "get"}
    /\ running' = FALSE
    /\ UNCHANGED <<prog, calibrated, tts, mainpc, listening, count,
                   audio_queue, captured, workers, csv, speech, overlapped,
                   assigned, faults>>
    /\ UNCHANGED voiceVars

\* ------------------------------------------------- bibb.py: capture, queue
\* put_nowait as a ring buffer: a full queue evicts its oldest snippet
PutNowaitEvict(q, a) ==
    IF Len(q) < QUEUE_MAXSIZE THEN Append(q, a) ELSE Append(Tail(q), a)

\* put_nowait on a queue without maxsize
PutNowaitUnbounded(q, a) == Append(q, a)

\* queue.Queue.put_nowait: the queue after the call
PutNowait(q, a) == IF Len(q) < QUEUE_MAXSIZE THEN Append(q, a) ELSE q

\* queue.Queue.put_nowait raises queue.Full
QueueFull(q) == Len(q) >= QUEUE_MAXSIZE

\* listen_in_background.callback: enqueue without blocking, drop when full
Callback ==
    /\ prog = "bibb" /\ listening
    /\ mainpc \in {"loop", "get"}
    /\ captured < MaxSnippets /\ captured + faults < MaxEvents
    /\ captured' = captured + 1
    /\ audio_queue' = PutNowait(audio_queue, captured + 1)
    /\ workers' = [workers EXCEPT ![captured + 1].pc =
                       IF QueueFull(audio_queue) THEN "dropped" ELSE "queued"]
    /\ UNCHANGED <<prog, calibrated, tts, mainpc, running, listening, count,
                   csv, speech, overlapped, assigned, faults>>
    /\ UNCHANGED voiceVars

\* the loop going on whatever the flag says
LoopTestAlways ==
    /\ prog = "bibb" /\ mainpc = "loop"
    /\ mainpc' = "get"
    /\ UNCHANGED <<prog, calibrated, tts, running, listening, count,
                   audio_queue, captured, workers, csv, speech, overlapped,
                   assigned, faults>>
    /\ UNCHANGED voiceVars

\* process_queue: `while self.running` is true
LoopTest ==
    /\ prog = "bibb" /\ mainpc = "loop"
    /\ running
    /\ mainpc' = "get"
    /\ UNCHANGED <<prog, calibrated, tts, running, listening, count,
                   audio_queue, captured, workers, csv, speech, overlapped,
                   assigned, faults>>
    /\ UNCHANGED voiceVars

\* process_queue: `while self.running` is false, the loop ends; run():
\* finally: self.stop_listening(wait_for_stop=False)
LoopExit ==
    /\ prog = "bibb" /\ mainpc = "loop"
    /\ ~running
    /\ listening' = FALSE
    /\ mainpc' = "stopped"
    /\ UNCHANGED <<prog, calibrated, tts, running, count, audio_queue,
                   captured, workers, csv, speech, overlapped, assigned,
                   faults>>
    /\ UNCHANGED voiceVars

\* the loop taking the next snippet only when no thread is at work
SpawnWorkerWhenIdle ==
    /\ prog = "bibb" /\ mainpc = "get"
    /\ audio_queue # <<>>
    /\ InFlight = {}
    /\ audio_queue' = Tail(audio_queue)
    /\ workers' = [workers EXCEPT ![Head(audio_queue)] =
                       [@ EXCEPT !.pc = "recognize", !.attempt = 1]]
    /\ mainpc' = "loop"
    /\ UNCHANGED <<prog, calibrated, tts, running, listening, count, captured,
                   csv, speech, overlapped, assigned, faults>>
    /\ UNCHANGED voiceVars

\* process_queue: audio_queue.get(timeout=1.0) returns a snippet, and a
\* daemon thread running _process_audio is started for it
SpawnWorker ==
    /\ prog = "bibb" /\ mainpc = "get"
    /\ audio_queue # <<>>
    /\ audio_queue' = Tail(audio_queue)
    /\ workers' = [workers EXCEPT ![Head(audio_queue)] =
                       [@ EXCEPT !.pc = "recognize", !.attempt = 1]]
    /\ mainpc' = "loop"
    /\ UNCHANGED <<prog, calibrated, tts, running, listening, count, captured,
                   csv, speech, overlapped, assigned, faults>>
    /\ UNCHANGED voiceVars

\* SpawnWorker while fewer than MaxInFlight threads are at work, which keeps
\* the number of interleavings explored finite and small
Dispatch ==
    /\ Cardinality(InFlight) < MaxInFlight
    /\ SpawnWorker

\* process_queue: audio_queue.get(timeout=1.0) raises queue.Empty
GetTimeout ==
    /\ prog = "bibb" /\ mainpc = "get"
    /\ audio_queue = <<>>
    /\ mainpc' = "loop"
    /\ UNCHANGED <<prog, calibrated, tts, running, listening, count,
                   audio_queue, captured, workers, csv, speech, overlapped,
                   assigned, faults>>
    /\ UNCHANGED voiceVars

\* main() returns: the interpreter exits and the daemon threads end with it
ProcessExit ==
    /\ prog = "bibb" /\ mainpc = "stopped"
    /\ mainpc' = "exited"
    /\ UNCHANGED <<prog, calibrated, tts, running, listening, count,
                   audio_queue, captured, workers, csv, speech, overlapped,
                   assigned, faults>>
    /\ UNCHANGED voiceVars

\* the process is alive: its threads can take steps
Alive == mainpc \in {"loop", "get", "stopped"}

\* ------------------------------------------- bibb.py: _process_audio thread
\* the phrase test as an exact match
TriggerExact(text) == text = PHRASE

\* the phrase test left out: every text is answered
TriggerAlways(text) == TRUE

\* `self.config.PHRASE in recognized_text`
Trigger(text) == Contains(PHRASE, text)

\* the give-up test one attempt early
LastAttemptEarly(a) == a = MAX_RETRY - 1

\* the give-up test left out
LastAttemptNever(a) == FALSE

\* `attempt == self.config.MAX_RETRY`: the last attempt of the for loop
LastAttempt(a) == a = MAX_RETRY

\* the reply taken after the increment instead of before it
ReplyAtShifted(c) == REPLIES[((c + 1) % Len(REPLIES)) + 1]

\* _get_next_reply: the reply for a counter value
ReplyAt(c) == REPLIES[(c % Len(REPLIES)) + 1]

\* the environment may still inject a failure
MayFail == faults < MaxFaults /\ captured + faults < MaxEvents

\* recognize_google returns a text: lower it, leave the loop, test the phrase
RecognizeText(w) ==
    /\ prog = "bibb" /\ Alive
    /\ workers[w].pc = "recognize"
    /\ \E raw \in RawTexts :
        workers' = [workers EXCEPT ![w] =
            [@ EXCEPT !.result = "text",
                      !.text = Lower(raw),
                      !.pc = IF Trigger(Lower(raw)) THEN "next_reply"
                                                    ELSE "done"]]
    /\ UNCHANGED <<prog, calibrated, tts, mainpc, running, listening, count,
                   audio_queue, captured, csv, speech, overlapped, assigned,
                   faults>>
    /\ UNCHANGED voiceVars

\* UnknownValueError handled like RequestError: sleep and try again
RecognizeUnknownRetry(w) ==
    /\ prog = "bibb" /\ Alive
    /\ workers[w].pc = "recognize"
    /\ MayFail
    /\ faults' = faults + 1
    /\ workers' = [workers EXCEPT ![w] =
            [@ EXCEPT !.result = "unknown",
                      !.pc = IF workers[w].attempt = MAX_RETRY
                             THEN "done" ELSE "sleep"]]
    /\ UNCHANGED <<prog, calibrated, tts, mainpc, running, listening, count,
                   audio_queue, captured, csv, speech, overlapped, assigned>>
    /\ UNCHANGED voiceVars

\* recognize_google raises sr.UnknownValueError: return
RecognizeUnknown(w) ==
    /\ prog = "bibb" /\ Alive
    /\ workers[w].pc = "recognize"
    /\ MayFail
    /\ faults' = faults + 1
    /\ workers' = [workers EXCEPT ![w] =
            [@ EXCEPT !.result = "unknown", !.pc = "done"]]
    /\ UNCHANGED <<prog, calibrated, tts, mainpc, running, listening, count,
                   audio_queue, captured, csv, speech, overlapped, assigned>>
    /\ UNCHANGED voiceVars

\* recognize_google raises sr.RequestError: return on the last attempt,
\* otherwise time.sleep(1)
RecognizeRequestError(w) ==
    /\ prog = "bibb" /\ Alive
    /\ workers[w].pc = "recognize"
    /\ MayFail
    /\ faults' = faults + 1
    /\ workers' = [workers EXCEPT ![w] =
            [@ EXCEPT !.result = "request_error",
                      !.pc = IF LastAttempt(workers[w].attempt)
                             THEN "done" ELSE "sleep"]]
    /\ UNCHANGED <<prog, calibrated, tts, mainpc, running, listening, count,
                   audio_queue, captured, csv, speech, overlapped, assigned>>
    /\ UNCHANGED voiceVars

\* the unexpected exception reaching the controller and stopping the loop
RecognizeErrorStops(w) ==
    /\ prog = "bibb" /\ Alive
    /\ workers[w].pc = "recognize"
    /\ MayFail
    /\ faults' = faults + 1
    /\ running' = FALSE
    /\ workers' = [workers EXCEPT ![w] =
            [@ EXCEPT !.result = "error", !.pc = "died"]]
    /\ UNCHANGED <<prog, calibrated, tts, mainpc, listening, count,
                   audio_queue, captured, csv, speech, overlapped, assigned>>
    /\ UNCHANGED voiceVars

\* recognize_google raises anything else: no except clause matches, the
\* exception leaves _process_audio and ends its thread
RecognizeError(w) ==
    /\ prog = "bibb" /\ Alive
    /\ workers[w].pc = "recognize"
    /\ MayFail
    /\ faults' = faults + 1
    /\ workers' = [workers EXCEPT ![w] =
            [@ EXCEPT !.result = "error", !.pc = "died"]]
    /\ UNCHANGED <<prog, calibrated, tts, mainpc, running, listening, count,
                   audio_queue, captured, csv, speech, overlapped, assigned>>
    /\ UNCHANGED voiceVars

\* time.sleep(1) returns and the for loop takes the next attempt
Backoff(w) ==
    /\ prog = "bibb" /\ Alive
    /\ workers[w].pc = "sleep"
    /\ workers' = [workers EXCEPT ![w] =
            [@ EXCEPT !.attempt = @ + 1, !.pc = "recognize"]]
    /\ UNCHANGED <<prog, calibrated, tts, mainpc, running, listening, count,
                   audio_queue, captured, csv, speech, overlapped, assigned,
                   faults>>
    /\ UNCHANGED voiceVars

\* _get_next_reply: idx = self.count % len(REPLIES); reply = REPLIES[idx]
NextReplyRead(w) ==
    /\ prog = "bibb" /\ Alive
    /\ workers[w].pc = "next_reply"
    /\ workers' = [workers EXCEPT ![w] =
            [@ EXCEPT !.cnt = count, !.reply = ReplyAt(count),
                      !.pc = "increment"]]
    /\ overlapped' = (overlapped \/ InNextReply # {})
    /\ UNCHANGED <<prog, calibrated, tts, mainpc, running, listening, count,
                   audio_queue, captured, csv, speech, assigned, faults>>
    /\ UNCHANGED voiceVars

\* _get_next_reply: `self.count += 1`, the load of self.count
IncrementLoad(w) ==
    /\ prog = "bibb" /\ Alive
    /\ workers[w].pc = "increment"
    /\ workers' = [workers EXCEPT ![w] = [@ EXCEPT !.tmp = count, !.pc = "store"]]
    /\ UNCHANGED <<prog, calibrated, tts, mainpc, running, listening, count,
                   audio_queue, captured, csv, speech, overlapped, assigned,
                   faults>>
    /\ UNCHANGED voiceVars

\* _get_next_reply: `self.count += 1`, the store to self.count; return reply
IncrementStore(w) ==
    /\ prog = "bibb" /\ Alive
    /\ workers[w].pc = "store"
    /\ count' = workers[w].tmp + 1
    /\ workers' = [workers EXCEPT ![w] =
            [@ EXCEPT !.cnt = 0, !.tmp = 0, !.pc = "speak"]]
    /\ assigned' = Append(assigned, [id |-> w, cnt |-> workers[w].cnt,
                                     reply |-> workers[w].reply])
    /\ UNCHANGED <<prog, calibrated, tts, mainpc, running, listening,
                   audio_queue, captured, csv, speech, overlapped, faults>>
    /\ UNCHANGED voiceVars

\* self.tts.speak(reply) inside try/except: TTSEngine.speak starts the
\* speaking thread, which waits for the engine lock, and returns
SpeakOk(w) ==
    /\ prog = "bibb" /\ Alive
    /\ workers[w].pc = "speak"
    /\ speech' = Append(speech, [id |-> w, reply |-> workers[w].reply])
    /\ workers' = [workers EXCEPT ![w] = [@ EXCEPT !.spoke = "ok", !.pc = "log"]]
    /\ tts' = [tts EXCEPT ![w] = "waiting"]
    /\ UNCHANGED <<prog, calibrated, mainpc, running, listening, count,
                   audio_queue, captured, csv, overlapped, assigned, faults>>
    /\ UNCHANGED voiceVars

\* self.tts.speak(reply) outside any try: the exception ends the thread
SpeakFailedRaises(w) ==
    /\ prog = "bibb" /\ Alive
    /\ workers[w].pc = "speak"
    /\ MayFail
    /\ faults' = faults + 1
    /\ workers' = [workers EXCEPT ![w] =
            [@ EXCEPT !.spoke = "failed", !.pc = "died"]]
    /\ UNCHANGED <<prog, calibrated, tts, mainpc, running, listening, count,
                   audio_queue, captured, csv, speech, overlapped, assigned>>
    /\ UNCHANGED voiceVars

\* self.tts.speak(reply) raises: the except clause logs "TTS speak failed"
SpeakFailed(w) ==
    /\ prog = "bibb" /\ Alive
    /\ workers[w].pc = "speak"
    /\ MayFail
    /\ faults' = faults + 1
    /\ workers' = [workers EXCEPT ![w] =
            [@ EXCEPT !.spoke = "failed", !.pc = "log"]]
    /\ UNCHANGED <<prog, calibrated, tts, mainpc, running, listening, count,
                   audio_queue, captured, csv, speech, overlapped, assigned>>
    /\ UNCHANGED voiceVars

\* the row written with the reply at the current position of the cycle
LogOkCurrent(w) ==
    /\ prog = "bibb" /\ Alive
    /\ workers[w].pc = "log"
    /\ csv' = Append(csv, [id |-> w, recognized_text |-> workers[w].text,
                           reply |-> ReplyAt(count)])
    /\ workers' = [workers EXCEPT ![w] =
            [@ EXCEPT !.logged = "ok", !.pc = "done"]]
    /\ UNCHANGED <<prog, calibrated, tts, mainpc, running, listening, count,
                   audio_queue, captured, speech, overlapped, assigned,
                   faults>>
    /\ UNCHANGED voiceVars

\* CSVLogger.log_interaction: the row is appended
LogOk(w) ==
    /\ prog = "bibb" /\ Alive
    /\ workers[w].pc = "log"
    /\ csv' = Append(csv, [id |-> w, recognized_text |-> workers[w].text,
                           reply |-> workers[w].reply])
    /\ workers' = [workers EXCEPT ![w] =
            [@ EXCEPT !.logged = "ok", !.pc = "done"]]
    /\ UNCHANGED <<prog, calibrated, tts, mainpc, running, listening, count,
                   audio_queue, captured, speech, overlapped, assigned,
                   faults>>
    /\ UNCHANGED voiceVars

\* a failed append tried again
LogFailedRetry(w) ==
    /\ prog = "bibb" /\ Alive
    /\ workers[w].pc = "log"
    /\ MayFail
    /\ faults' = faults + 1
    /\ workers' = [workers EXCEPT ![w] =
            [@ EXCEPT !.logged = "failed", !.pc = "log"]]
    /\ UNCHANGED <<prog, calibrated, tts, mainpc, running, listening, count,
                   audio_queue, captured, csv, speech, overlapped, assigned>>
    /\ UNCHANGED voiceVars

\* CSVLogger.log_interaction: open or writerow raises, the except clause
\* logs "Error writing to CSV" and the call returns
LogFailed(w) ==
    /\ prog = "bibb" /\ Alive
    /\ workers[w].pc = "log"
    /\ MayFail
    /\ faults' = faults + 1
    /\ workers' = [workers EXCEPT ![w] =
            [@ EXCEPT !.logged = "failed", !.pc = "done"]]
    /\ UNCHANGED <<prog, calibrated, tts, mainpc, running, listening, count,
                   audio_queue, captured, csv, speech, overlapped, assigned>>
    /\ UNCHANGED voiceVars

\* one step of the thread started for snippet w
ProcessAudio(w) ==
    \/ RecognizeText(w)
    \/ RecognizeUnknown(w)
    \/ RecognizeRequestError(w)
    \/ RecognizeError(w)
    \/ Backoff(w)
    \/ NextReplyRead(w)
    \/ IncrementLoad(w)
    \/ IncrementStore(w)
    \/ SpeakOk(w)
    \/ SpeakFailed(w)
    \/ LogOk(w)
    \/ LogFailed(w)

\* ------------------------------------------ bibb.py: _speak_task thread
\* the frame of a step of a speaking thread
SpeakTaskFrame ==
    /\ UNCHANGED <<prog, calibrated, mainpc, running, listening, count,
                   audio_queue, captured, workers, csv, speech, overlapped,
                   assigned, faults>>
    /\ UNCHANGED voiceVars

\* the engine lock is held by some speaking thread
Locked == \E v \in Snippets : tts[v] = "speaking"

\* the engine entered without the lock
TaskAcquireUnlocked(w) ==
    /\ prog = "bibb" /\ Alive
    /\ tts[w] = "waiting"
    /\ tts' = [tts EXCEPT ![w] = "speaking"]
    /\ SpeakTaskFrame

\* _speak_task: `with self.lock:` is entered
TaskAcquire(w) ==
    /\ prog = "bibb" /\ Alive
    /\ tts[w] = "waiting"
    /\ ~Locked
    /\ tts' = [tts EXCEPT ![w] = "speaking"]
    /\ SpeakTaskFrame

\* _speak_task: say and runAndWait return, the lock is released
TaskSpoken(w) ==
    /\ prog = "bibb" /\ Alive
    /\ tts[w] = "speaking"
    /\ tts' = [tts EXCEPT ![w] = "spoken"]
    /\ SpeakTaskFrame

\* _speak_task: say or runAndWait raises; the error is logged, the lock
\* released, the utterance given up
TaskEngineError(w) ==
    /\ prog = "bibb" /\ Alive
    /\ tts[w] = "speaking"
    /\ tts' = [tts EXCEPT ![w] = "failed"]
    /\ SpeakTaskFrame

\* one step of the speaking thread started for the reply of snippet w
SpeakTask(w) ==
    \/ TaskAcquire(w)
    \/ TaskSpoken(w)
    \/ TaskEngineError(w)

\* ------------------------------------------------------------ voice.py
\* main(): `"who is he" in text`
VoiceTrigger(text) == Contains(PHRASE, text)

\* main(): name = REPLIES[count % len(REPLIES)]
VoiceName(c) == REPLIES[(c % Len(REPLIES)) + 1]

\* one iteration of main()'s loop on the text listen_for_who_is_he returned
VoiceReact(text) ==
    /\ vtexts' = Append(vtexts, text)
    /\ IF VoiceTrigger(text)
       THEN /\ vnames' = Append(vnames, VoiceName(vcount))
            /\ vcount' = vcount + 1
       ELSE UNCHANGED <<vnames, vcount>>

\* listen_for_who_is_he returns recognize_google(audio).lower()
VoiceHeard ==
    /\ prog = "voice" /\ mainpc = "main"
    /\ Len(vtexts) < MaxTurns
    /\ \E raw \in VoiceTexts : VoiceReact(Lower(raw))
    /\ UNCHANGED prog
    /\ UNCHANGED bibbVars

\* listen_for_who_is_he returns "" on UnknownValueError and on RequestError
VoiceNotHeard ==
    /\ prog = "voice" /\ mainpc = "main"
    /\ Len(vtexts) < MaxTurns
    /\ VoiceReact(<<>>)
    /\ UNCHANGED prog
    /\ UNCHANGED bibbVars

\* main(): KeyboardInterrupt ends the loop
VoiceInterrupt ==
    /\ prog = "voice" /\ mainpc = "main"
    /\ mainpc' = "exited"
    /\ UNCHANGED <<prog, calibrated, tts, running, listening, count,
                   audio_queue, captured, workers, csv, speech, overlapped,
                   assigned, faults>>
    /\ UNCHANGED voiceVars

\* ------------------------------------------------------------ specification
Next ==
    \/ MainProbe
    \/ Construct
    \/ CalibrateAmbient
    \/ RunStart
    \/ ListenInBackground
    \/ SignalHandler
    \/ Callback
    \/ LoopTest
    \/ LoopExit
    \/ Dispatch
    \/ GetTimeout
    \/ ProcessExit
    \/ \E w \in Snippets : ProcessAudio(w)
    \/ VoiceHeard
    \/ VoiceNotHeard
    \/ VoiceInterrupt

Spec == Init /\ [][Next]_vars

\* ------------------------------------------------- speech output, fair
\* a thread whose every call succeeds
Answering(w) ==
    \/ RecognizeText(w)
    \/ NextReplyRead(w)
    \/ IncrementLoad(w)
    \/ IncrementStore(w)
    \/ SpeakOk(w)
    \/ LogOk(w)

\* the capture callback, for the first MaxSpeakers snippets
FewCallbacks ==
    /\ captured < MaxSpeakers
    /\ Callback

\* the program with the speaking threads: the controller, the callback,
\* threads whose calls succeed, and the speaking thread of each request
TtsNext ==
    \/ MainProbe
    \/ Construct
    \/ CalibrateAmbient
    \/ RunStart
    \/ ListenInBackground
    \/ SignalHandler
    \/ FewCallbacks
    \/ LoopTest
    \/ LoopExit
    \/ Dispatch
    \/ GetTimeout
    \/ ProcessExit
    \/ \E w \in Snippets : Answering(w)
    \/ \E w \in Snippets : SpeakTask(w)

\* every speaking thread gets its turns while the process lives
TtsSpec ==
    /\ Init /\ [][TtsNext]_vars
    /\ \A w \in Snippets : WF_vars(SpeakTask(w))

\* ------------------------------------------- capture and dispatch, fair
\* a thread that stays in its transcription phase: failed attempts and
\* backoff sleeps, or no step at all
Transcribing(w) ==
    \/ RecognizeRequestError(w)
    \/ Backoff(w)

\* the controller, the capture callback and threads that never get past
\* transcription; the loop starts a thread however many are at work
LiveNext ==
    \/ MainProbe
    \/ Construct
    \/ CalibrateAmbient
    \/ RunStart
    \/ ListenInBackground
    \/ SignalHandler
    \/ Callback
    \/ LoopTest
    \/ LoopExit
    \/ SpawnWorker
    \/ GetTimeout
    \/ ProcessExit
    \/ \E w \in Snippets : Transcribing(w)

\* the main thread gets its turns and get(timeout=1.0) returns; nothing is
\* assumed of the threads, the callback or the signal
LiveSpec ==
    /\ Init /\ [][LiveNext]_vars
    /\ WF_vars(LoopTest) /\ WF_vars(SpawnWorker) /\ WF_vars(GetTimeout)

\* ------------------------------------------------------------ properties
\* the entries of a history that stem from snippet w
Of(hist, w) == {i \in 1..Len(hist) : hist[i].id = w}

\* p occurs in s: s is some prefix, then p, then some suffix
Occurs(p, s) ==
    \E i \in 0..(Len(s) - Len(p)) :
        SubSeq(s, 1, i) \o p \o SubSeq(s, i + Len(p) + 1, Len(s)) = s

\* the k-th element (from 1) of the cyclic reply sequence
Cyclic(k) == REPLIES[((k - 1) % 3) + 1]

\* the thread of snippet w has detected the trigger phrase
Detected(w) ==
    workers[w].pc \in {"next_reply", "increment", "store", "speak", "log"}
    \/ (workers[w].pc = "done" /\ workers[w].spoke # "none")

\* the thread of snippet w has left nothing behind: no reply, no speech
\* request, no log record
NoReaction(w) ==
    /\ Of(assigned, w) = {} /\ Of(speech, w) = {} /\ Of(csv, w) = {}
    /\ workers[w].spoke = "none" /\ workers[w].logged = "none"
    /\ workers[w].reply = ""

\* C1: under every interleaving of the workers, the replies handed out by N
\* calls of _get_next_reply are, as a multiset, the first N elements of the
\* cyclic reply sequence, and no two calls read the same counter value.
C1_RepliesFormCycle ==
    /\ \A i, j \in 1..Len(assigned) :
          i # j => assigned[i].cnt # assigned[j].cnt
    /\ \A r \in {REPLIES[n] : n \in 1..Len(REPLIES)} :
          Cardinality({i \in 1..Len(assigned) : assigned[i].reply = r})
            = Cardinality({k \in 1..Len(assigned) : Cyclic(k) = r})

\* C2: when the calls of _get_next_reply do not overlap, the k-th detection
\* receives REPLIES[k mod len(REPLIES)] (Vaibhav, Manas, Dev, Vaibhav, ...),
\* and the position advances only for snippets that trigger; voice.py's loop
\* does the same.
C2_SequentialCycle ==
    /\ (prog = "bibb" /\ ~overlapped) =>
          /\ \A k \in 1..Len(assigned) : assigned[k].reply = Cyclic(k)
          /\ InNextReply = {} =>
                /\ count = Len(assigned)
                /\ count = Cardinality({w \in Snippets :
                              /\ workers[w].result = "text"
                              /\ Occurs(PHRASE, workers[w].text)
                              /\ workers[w].pc \in {"speak", "log", "done"}})
    /\ prog = "voice" =>
          /\ \A k \in 1..Len(vnames) : vnames[k] = Cyclic(k)
          /\ vcount = Len(vnames)
          /\ vcount = Cardinality({k \in 1..Len(vtexts) :
                                      Occurs(PHRASE, vtexts[k])})

\* C2 witness: four detections without overlap, the fourth wraps to Vaibhav
C2_FourthReplyWraps ==
    /\ prog = "bibb" /\ ~overlapped
    /\ Len(assigned) = 4
    /\ assigned[1].reply = "Vaibhav" /\ assigned[2].reply = "Manas"
    /\ assigned[3].reply = "Dev" /\ assigned[4].reply = "Vaibhav"

\* the capture callback returns having found the queue full
C3_CallbackOnFull ==
    /\ prog = "bibb"
    /\ captured' = captured + 1
    /\ Len(audio_queue) = QUEUE_MAXSIZE

\* C3: a callback that finds QUEUE_MAXSIZE snippets queued returns at once,
\* its snippet is dropped and never processed later, and the queue holds
\* exactly what it held before, in the same order.
C3_FullQueueDrops ==
    [][ /\ C3_CallbackOnFull =>
              /\ audio_queue' = audio_queue
              /\ workers'[captured'].pc = "dropped"
        /\ \A w \in Snippets :
              workers[w].pc = "dropped" =>
                  /\ workers'[w] = workers[w]
                  /\ \A i \in 1..Len(audio_queue') : audio_queue'[i] # w
      ]_vars

\* C3 witness: a snippet has been dropped at a full queue
C3_SnippetDropped ==
    /\ Len(audio_queue) = QUEUE_MAXSIZE
    /\ \E w \in Snippets :
          /\ workers[w].pc = "dropped"
          /\ \A i \in 1..Len(audio_queue) : audio_queue[i] < w

\* the thread of snippet w has returned from a detection
Reacted(w) ==
    /\ workers[w].pc = "done"
    /\ workers[w].result = "text"
    /\ Occurs(PHRASE, workers[w].text)

\* C4: a snippet whose transcription fails with RequestError on its first k
\* attempts, k < MAX_RETRY, is tried again, and when attempt k + 1 returns a
\* text with the trigger phrase the thread takes exactly one reply, makes
\* exactly one speech request and one log append; each one the backend
\* accepts leaves exactly one entry.
C4_RetryThenReply ==
    \A w \in Snippets :
        /\ (workers[w].result = "request_error"
               /\ workers[w].attempt < MAX_RETRY) =>
                  workers[w].pc \in {"sleep", "recognize"}
        /\ Reacted(w) =>
              /\ workers[w].attempt \in 1..MAX_RETRY
              /\ Cardinality(Of(assigned, w)) = 1
              /\ workers[w].spoke \in {"ok", "failed"}
              /\ workers[w].logged \in {"ok", "failed"}
              /\ Cardinality(Of(speech, w))
                    = IF workers[w].spoke = "ok" THEN 1 ELSE 0
              /\ Cardinality(Of(csv, w))
                    = IF workers[w].logged = "ok" THEN 1 ELSE 0

\* C4 witness: two RequestErrors, then a text with the phrase on attempt
\* MAX_RETRY, answered with one reply, one speech request and one record
C4_ThirdAttemptAnswered ==
    \E w \in Snippets :
        /\ Reacted(w)
        /\ workers[w].attempt = MAX_RETRY
        /\ Cardinality(Of(assigned, w)) = 1
        /\ Cardinality(Of(speech, w)) = 1
        /\ Cardinality(Of(csv, w)) = 1

\* the thread of snippet w has given up after RequestErrors
GaveUp(w) ==
    workers[w].pc = "done" /\ workers[w].result = "request_error"

\* C5: no thread makes more than MAX_RETRY transcription attempts; a thread
\* whose every attempt raised RequestError has made exactly MAX_RETRY of them
\* and ends with no reply, no speech request and no log record, and none of
\* its steps changes the reply counter.
C5_RetriesExhausted ==
    /\ [](\A w \in Snippets :
            /\ workers[w].attempt <= MAX_RETRY
            /\ GaveUp(w) => (workers[w].attempt = MAX_RETRY /\ NoReaction(w)))
    /\ [][\A w \in Snippets :
            (workers'[w] # workers[w] /\ workers'[w].result = "request_error")
               => UNCHANGED <<count, assigned, speech, csv>>]_vars

\* C5 witness: a snippet abandoned after MAX_RETRY RequestErrors
C5_Abandoned ==
    \E w \in Snippets : GaveUp(w) /\ workers[w].attempt = MAX_RETRY

\* C6: a thread whose transcription raised UnknownValueError, on whichever
\* attempt, has returned: it makes no further attempt and leaves no reply,
\* no speech request, no log record and the counter as it was.
C6_UnrecognizedAbandoned ==
    \A w \in Snippets :
        workers[w].result = "unknown" =>
            /\ workers[w].pc = "done"
            /\ NoReaction(w)

\* C6 witness: UnknownValueError on a second attempt
C6_UnknownOnRetry ==
    \E w \in Snippets :
        /\ workers[w].result = "unknown"
        /\ workers[w].attempt = 2
        /\ workers[w].pc = "done"

\* C7: a thread whose transcription raised an exception other than
\* UnknownValueError and RequestError ends at once with no retry, no reply,
\* no speech request and no log record, and the step changes nothing outside
\* that thread: the running flag, the dispatch loop, the queue and the other
\* threads go on as before.
C7_FatalContained ==
    /\ [](\A w \in Snippets :
            workers[w].result = "error" =>
                (workers[w].pc = "died" /\ NoReaction(w)))
    /\ [][\A w \in Snippets :
            (workers'[w].result = "error" /\ workers[w].result # "error") =>
                /\ UNCHANGED <<mainpc, running, listening, audio_queue,
                               captured, count, assigned, speech, csv>>
                /\ \A v \in Snippets \ {w} : workers'[v] = workers[v]]_vars

\* C7 witness: after the thread of one snippet died, the loop has dequeued a
\* later snippet and its thread has logged a reply
C7_LaterSnippetProcessed ==
    \E w, v \in Snippets :
        /\ w < v
        /\ workers[w].pc = "died"
        /\ workers[v].pc = "done" /\ workers[v].logged = "ok"
        /\ mainpc \in {"loop", "get"} /\ running

\* C8: a thread that got a text reacts (reply, speech, log) if and only if the
\* trigger phrase occurs as a contiguous substring of the lowered text, and
\* voice.py counts exactly the texts in which it occurs.
C8_SubstringTrigger ==
    /\ \A w \in Snippets :
          workers[w].result = "text" =>
              /\ Detected(w) <=> Occurs(PHRASE, workers[w].text)
              /\ ~Detected(w) => (workers[w].pc = "done" /\ NoReaction(w))
    /\ \A w \in Snippets :
          Of(assigned, w) # {} =>
              (workers[w].result = "text" /\ Occurs(PHRASE, workers[w].text))
    /\ vcount = Cardinality({k \in 1..Len(vtexts) : Occurs(PHRASE, vtexts[k])})

\* C8 witness: "i wonder who is he today ", not the phrase itself, was answered
C8_LongerTextAnswered ==
    \E w \in Snippets :
        /\ workers[w].text = <<"i"," ","w","o","n","d","e","r"," ","w","h","o",
                               " ","i","s"," ","h","e"," ","t","o","d","a","y",
                               " ">>
        /\ workers[w].text # PHRASE
        /\ workers[w].pc = "done"
        /\ Of(assigned, w) # {} /\ Of(speech, w) # {} /\ Of(csv, w) # {}

\* C9: a failed append is not tried again and stops nothing: the thread
\* returns without a record, and every append that succeeds, also after
\* failed ones, adds exactly one record.
C9_LogFailureLeavesGap ==
    /\ \A w \in Snippets :
          /\ workers[w].logged = "failed" =>
                (workers[w].pc = "done" /\ Of(csv, w) = {})
          /\ workers[w].logged = "ok" =>
                (workers[w].pc = "done" /\ Cardinality(Of(csv, w)) = 1)
          /\ workers[w].logged = "none" => Of(csv, w) = {}
    /\ Len(csv) = Cardinality({w \in Snippets : workers[w].logged = "ok"})

\* C9 witness: the append of one detection failed and that of a later
\* detection added its record
C9_RecordAfterGap ==
    \E i, j \in 1..Len(assigned) :
        /\ i < j
        /\ workers[assigned[i].id].logged = "failed"
        /\ workers[assigned[j].id].logged = "ok"
        /\ Len(csv) = 1 /\ csv[1].id = assigned[j].id

\* C10: a speech request that fails does not end the thread and does not
\* keep it from the log append, and a failed append leaves the speech
\* request of the same detection in place.
C10_SideEffectsIsolated ==
    \A w \in Snippets :
        /\ workers[w].spoke = "failed" =>
              /\ workers[w].pc \in {"log", "done"}
              /\ workers[w].pc = "done" => workers[w].logged \in {"ok", "failed"}
              /\ Of(speech, w) = {}
        /\ workers[w].spoke = "ok" => Cardinality(Of(speech, w)) = 1
        /\ workers[w].logged # "none" => workers[w].spoke \in {"ok", "failed"}

\* C10 witness: one detection whose speech request failed and whose record
\* was appended, another whose append failed and whose speech request stands
C10_EachFailsAlone ==
    \E w, v \in Snippets :
        /\ workers[w].spoke = "failed" /\ workers[w].logged = "ok"
        /\ Cardinality(Of(csv, w)) = 1
        /\ workers[v].spoke = "ok" /\ workers[v].logged = "failed"
        /\ Cardinality(Of(speech, v)) = 1

\* the dispatch loop starts the thread of some snippet
Spawns ==
    \E w \in Snippets :
        workers[w].pc = "queued" /\ workers'[w].pc = "recognize"

\* the dispatch loop starts a dequeue only on a true flag, and only a
\* dequeue starts a thread: once running is false at most the dequeue in
\* progress starts one more
C11_LoopStops ==
    /\ (mainpc # "get" /\ mainpc' = "get") => running
    /\ Spawns => (mainpc = "get" /\ mainpc' = "loop")

\* C11 as claimed: after the signal has set running to false the loop starts
\* at most the one thread of the dequeue in progress, and every thread
\* already started runs to completion: none is cut short by the shutdown.
C11_WorkersRunToCompletion ==
    /\ [][C11_LoopStops]_vars
    /\ [](mainpc = "exited" => InFlight = {})

\* C11: after the signal has set running to false the loop starts at most
\* the one thread of the dequeue in progress and then exits; the handler and
\* the loop exit change no thread, and the threads go on as long as the
\* process lives: those still in flight when main() returns are daemon
\* threads and end with the process.
C11_ShutdownBestEffort ==
    /\ [][C11_LoopStops]_vars
    /\ [][(running' # running \/ listening' # listening \/ mainpc' # mainpc)
             => (workers' = workers \/ Spawns)]_vars
    /\ [][workers' # workers => mainpc \in {"loop", "get", "stopped"}]_vars
    /\ [](mainpc = "exited" => (~running /\ ~listening))

\* C11 witness: the loop has exited on the signal, one thread has finished
\* and another is still in flight
C11_InFlightAtStop ==
    /\ mainpc = "stopped" /\ ~running
    /\ \E w, v \in Snippets :
          workers[w].pc = "done" /\ workers[v].pc \in LivePcs

\* C12: once the signal has set running to false no snippet is enqueued any
\* more, neither while the loop is still to notice it nor after it has exited.
C12_NoEnqueueAfterSignal ==
    [][(~running /\ mainpc \in {"loop", "get", "stopped", "exited"})
          => (\A w \in Snippets :
                 workers'[w].pc = "queued" => workers[w].pc = "queued")
      ]_vars

\* no thread is about to call, or inside, _get_next_reply
NoCallPending ==
    \A w \in Snippets :
        workers[w].pc \notin {"next_reply", "increment", "store"}

\* C13: under every interleaving count never decreases, and once every call
\* of _get_next_reply has returned it equals the number of detections.
C13_CounterLosesNoUpdate ==
    /\ [][count' >= count]_vars
    /\ [](NoCallPending => count = Len(assigned))

\* C14: whatever the interleaving of the capture callback and the dispatch
\* loop, the queue holds between 0 and QUEUE_MAXSIZE snippets.
C14_QueueBounded ==
    /\ Len(audio_queue) >= 0
    /\ Len(audio_queue) <= QUEUE_MAXSIZE
    /\ Cardinality({audio_queue[i] : i \in 1..Len(audio_queue)})
          = Len(audio_queue)

\* C14 witness: the queue at capacity after more callbacks than it holds,
\* with the dispatch loop in its dequeue
C14_QueueAtCapacity ==
    /\ Len(audio_queue) = QUEUE_MAXSIZE
    /\ captured > QUEUE_MAXSIZE
    /\ mainpc = "get"

\* C17: a thread whose text does not contain the trigger phrase ends at
\* once and leaves nothing behind, and the step that gives it this text
\* changes neither count, the log, the speech requests, the handed-out
\* replies, the queue nor the running flag.
C17_NonTriggerNoEffect ==
    /\ [](\A w \in Snippets :
            (workers[w].result = "text" /\ ~Occurs(PHRASE, workers[w].text))
                => (workers[w].pc = "done" /\ NoReaction(w)))
    /\ [][\A w \in Snippets :
            (/\ workers'[w] # workers[w]
             /\ workers'[w].result = "text"
             /\ ~Occurs(PHRASE, workers'[w].text))
                => (/\ count' = count /\ csv' = csv /\ speech' = speech
                    /\ assigned' = assigned
                    /\ audio_queue' = audio_queue /\ running' = running)
         ]_vars

\* C17 witness: "who is she" was transcribed and its thread has ended, after
\* another snippet had been answered
C17_OtherTextIgnored ==
    \E w, v \in Snippets :
        /\ workers[w].pc = "done" /\ workers[w].result = "text"
        /\ workers[w].text = <<"w","h","o"," ","i","s"," ","s","h","e">>
        /\ v < w /\ Of(csv, v) # {} /\ count > 0

\* the elements of the reply sequence
ReplySet == {REPLIES[i] : i \in 1..Len(REPLIES)}

\* C20: every log record and every speech request belongs to one returned
\* call of _get_next_reply of the same snippet and carries its reply, an
\* element of REPLIES; a record's text contains the trigger phrase; a snippet
\* has at most one record and one speech request, so neither outnumbers the
\* calls.
C20_ReactionsMatchDetections ==
    /\ \A i \in 1..Len(csv) :
          /\ Occurs(PHRASE, csv[i].recognized_text)
          /\ csv[i].reply \in ReplySet
          /\ Cardinality(Of(assigned, csv[i].id)) = 1
          /\ \A j \in Of(assigned, csv[i].id) : assigned[j].reply = csv[i].reply
          /\ \A k \in Of(speech, csv[i].id) : speech[k].reply = csv[i].reply
    /\ \A k \in 1..Len(speech) :
          /\ speech[k].reply \in ReplySet
          /\ Cardinality(Of(assigned, speech[k].id)) = 1
          /\ \A j \in Of(assigned, speech[k].id) :
                assigned[j].reply = speech[k].reply
    /\ \A w \in Snippets :
          /\ Cardinality(Of(csv, w)) <= 1
          /\ Cardinality(Of(speech, w)) <= 1
          /\ Cardinality(Of(assigned, w)) <= 1
    /\ Len(csv) <= Len(assigned)
    /\ Len(speech) <= Len(assigned)

\* C20 witness: two snippets, each with a record and a speech request of its
\* own reply, the two replies differing
C20_TwoMatchingReactions ==
    \E i, j \in 1..Len(csv) :
        /\ csv[i].id # csv[j].id /\ csv[i].reply # csv[j].reply
        /\ \E k \in Of(speech, csv[i].id) : speech[k].reply = csv[i].reply
        /\ \E k \in Of(speech, csv[j].id) : speech[k].reply = csv[j].reply

\* s has an uppercase letter
HasUpper(s) ==
    \E i \in 1..Len(s) : \E k \in 1..26 : s[i] = UpperCase[k]

\* s neither starts nor ends with a blank
Trimmed(s) == s = <<>> \/ (s[1] # " " /\ s[Len(s)] # " ")

\* C16 as claimed: the text is lowered and trimmed before the phrase check,
\* and no log record's recognized_text has an uppercase letter or a leading
\* or trailing blank.
C16_LoweredAndTrimmed ==
    /\ \A w \in Snippets :
          workers[w].result = "text" =>
              (~HasUpper(workers[w].text) /\ Trimmed(workers[w].text))
    /\ \A i \in 1..Len(csv) :
          ~HasUpper(csv[i].recognized_text) /\ Trimmed(csv[i].recognized_text)

\* C16: the text is lowered, and only lowered, before the phrase check: a
\* thread's text and the recognized_text of its log record are str.lower()
\* of what the recognizer returned, of the same length, blanks at the same
\* places (leading and trailing ones included), with no uppercase letter.
C16_LoweredNotTrimmed ==
    /\ \A w \in Snippets :
          workers[w].result = "text" =>
              /\ ~HasUpper(workers[w].text)
              /\ \E raw \in RawTexts :
                    /\ Len(raw) = Len(workers[w].text)
                    /\ \A k \in 1..Len(raw) :
                          /\ (raw[k] = " ") <=> (workers[w].text[k] = " ")
                          /\ workers[w].text[k] \in {raw[k], LowerChar(raw[k])}
    /\ \A i \in 1..Len(csv) :
          /\ csv[i].recognized_text = workers[csv[i].id].text
          /\ workers[csv[i].id].result = "text"

\* C16 witness: a record whose text was returned with uppercase letters and
\* a trailing blank: lowered, the blank still there
C16_PaddedRecord ==
    \E i \in 1..Len(csv) :
        /\ csv[i].recognized_text[Len(csv[i].recognized_text)] = " "
        /\ csv[i].recognized_text[1] = "i"
        /\ ~HasUpper(csv[i].recognized_text)

\* C18: running is set only after ambient calibration has completed; before
\* that nothing is captured, queued or handed to a thread; and a failed
\* construction or calibration ends the program there: run() is never
\* started.
C18_RunningAfterCalibration ==
    /\ [](running => calibrated)
    /\ [](~calibrated =>
            /\ ~listening /\ captured = 0 /\ audio_queue = <<>>
            /\ \A w \in Snippets : workers[w] = NoWorker)
    /\ [](mainpc \in {"crashed", "exit1"} => (~calibrated /\ ~running))
    /\ [][(mainpc \in {"crashed", "exit1"}) =>
             (mainpc' = mainpc /\ running' = running)]_vars
    /\ [][(~running /\ running') => (mainpc = "run" /\ calibrated)]_vars

\* C18 witness: calibrated, running, a snippet handed to its thread and
\* another one waiting in the queue
C18_ServingAfterCalibration ==
    /\ calibrated /\ running
    /\ audio_queue # <<>>
    /\ \E w \in Snippets : workers[w].pc = "recognize"

\* C15: while running stays true every queued snippet is in the end taken
\* from the queue and given its thread, whatever the threads started before
\* are doing; a dequeue with a snippet waiting is never held back, and the
\* callback, one step without a wait, is never held back either.
C15_DispatchNeverWaits ==
    /\ \A w \in Snippets :
          (workers[w].pc = "queued" /\ running)
              ~> (workers[w].pc \in {"recognize", "sleep", "done"} \/ ~running)
    /\ []((prog = "bibb" /\ mainpc = "get" /\ audio_queue # <<>>)
              => ENABLED SpawnWorker)
    /\ []((prog = "bibb" /\ listening /\ mainpc \in {"loop", "get"}
           /\ captured < MaxSnippets /\ captured + faults < MaxEvents)
              => ENABLED Callback)

\* C15 witness: more than MaxInFlight threads, each in a transcription call
\* or a backoff sleep, and one more snippet has been given its thread
C15_AllBlocked ==
    /\ running
    /\ Cardinality({w \in Snippets : workers[w].pc \in {"recognize", "sleep"}})
          > MaxInFlight
    /\ \E w \in Snippets : workers[w].pc = "sleep"

\* at most one speaking thread is inside say/runAndWait
OneSpeaker == Cardinality({w \in Snippets : tts[w] = "speaking"}) <= 1

\* speak() does not wait: it can be called whoever holds the engine lock,
\* and it returns with its utterance still to be spoken
SpeakReturnsAtOnce ==
    /\ [](\A w \in Snippets :
            (prog = "bibb" /\ Alive /\ workers[w].pc = "speak")
                => ENABLED SpeakOk(w))
    /\ [][\A w \in Snippets :
            (workers[w].pc = "speak" /\ workers'[w].spoke = "ok")
                => (workers'[w].pc = "log" /\ tts[w] = "none"
                    /\ tts'[w] = "waiting")]_vars

\* C19 as claimed: never two speaking threads in the engine, speak() does
\* not wait, and every requested utterance gets spoken: none is given up on
\* an engine error and none is left unspoken when the process has ended.
C19_EveryUtteranceSpoken ==
    /\ OneSpeaker
    /\ \A w \in Snippets :
          /\ tts[w] # "failed"
          /\ mainpc = "exited" => tts[w] \in {"none", "spoken"}

\* C19: never two speaking threads in the engine; speak() does not wait;
\* and as long as the process lives every requested utterance is in the end
\* either spoken or given up on an engine error, which is logged. One still
\* waiting or being spoken when main() returns ends with the process.
C19_SpeechSerialized ==
    /\ []OneSpeaker
    /\ SpeakReturnsAtOnce
    /\ [](\A w \in Snippets : tts[w] # "none" => Of(speech, w) # {})
    /\ \A w \in Snippets :
          (tts[w] \in {"waiting", "speaking"})
              ~> (tts[w] \in {"spoken", "failed"} \/ mainpc = "exited")

\* C19 witness: one utterance spoken, the next being spoken while the
\* thread that asked for it has gone on to the log
C19_SecondUtteranceQueued ==
    \E w, v \in Snippets :
        /\ tts[w] = "spoken" /\ tts[v] = "speaking"
        /\ workers[v].pc = "log"
        /\ speech[1].id = w

====
